---------------------------- MODULE Spec2Model ----------------------------
(***************************************************************************)
(* State-machine model of the game core of BIT_Tetris (src/main.py):       *)
(* Tetrimino (shape, position, move, rotate), GameState (grid, score,      *)
(* speed, line clearing, row-crush skill, update tick) and the part of     *)
(* GameController._handle_event that turns input events into commands.     *)
(*                                                                         *)
(* Conventions.  Grid rows and shape rows are sequences (1-based); piece   *)
(* coordinates x, y and the loop indices row, col are 0-based as in the    *)
(* source, so grid[y][x] of the source is grid[y + 1][x + 1] here.  An RGB *)
(* colour tuple is packed into one positive integer; 0 is the empty cell.  *)
(* ticks and wall are the two clocks the program reads,                    *)
(* pygame.time.get_ticks() (ms) and time.time() (s); the environment       *)
(* advances them between handlers.                                         *)
(***************************************************************************)
EXTENDS Integers, Sequences, FiniteSets, TLC

(***************************************************************************)
(* Constants (class Constants)                                             *)
(***************************************************************************)
RGB(r, g, b) == r * 65536 + g * 256 + b

WHITE == RGB(255, 255, 255)
RED == RGB(255, 0, 0)
CYAN == RGB(0, 255, 255)
MAGENTA == RGB(255, 0, 255)
BLUE == RGB(0, 0, 255)
GREEN == RGB(0, 255, 0)
YELLOW == RGB(255, 255, 0)

GRID_WIDTH == 10
GRID_HEIGHT == 20
SKILL_COOLDOWN == 45
INITIAL_MOVE_DELAY == 1000
REPEAT_MOVE_DELAY == 100
INITIAL_FALLING_SPEED == 500
MIN_FALLING_SPEED == 100
SPEED_STEP == 50
LINES_PER_LEVEL == 10
SKILL_ROWS == 3
SKILL_SCORE == 100

SHAPES ==
  << << <<1, 1, 1, 1>> >>,
     << <<1, 1, 1>>, <<0, 0, 1>> >>,
     << <<1, 1, 1>>, <<1, 0, 0>> >>,
     << <<1, 1>>, <<1, 1>> >>,
     << <<1, 1, 0>>, <<0, 1, 1>> >>,
     << <<0, 1, 1>>, <<1, 1, 0>> >>,
     << <<1, 1, 1>>, <<0, 1, 0>> >> >>

SHAPE_COLORS == <<CYAN, RED, MAGENTA, WHITE, GREEN, YELLOW, BLUE>>

K_LEFT == "K_LEFT"
K_RIGHT == "K_RIGHT"
K_DOWN == "K_DOWN"
MoveKeys == {K_LEFT, K_RIGHT, K_DOWN}

(***************************************************************************)
(* Bounds of the model                                                     *)
(***************************************************************************)
\* the length (ms) of the behaviours of Spec and of SpecDrop
Horizon == 600
HorizonDrop == 1200

\* reading of the millisecond clock and of the wall clock (s) when the
\* behaviour starts
StartTicks == 600000
StartWall == 1000
\* an earlier reading of the millisecond clock, at which keys were used
PastTicks == 599000

\* the length of the behaviours of SpecSkill: ms of the tick clock and
\* seconds of the wall clock
HorizonSkill == 600
HorizonWall == 45

\* the length (ms) of the behaviours of SpecKeys
HorizonKeys == 1200

\* last reading of the millisecond clock in Spec and in SpecDrop
MaxTicks == StartTicks + Horizon
MaxTicksDrop == StartTicks + HorizonDrop
MaxTicksSkill == StartTicks + HorizonSkill
MaxTicksKeys == StartTicks + HorizonKeys
MaxWall == StartWall + HorizonWall

\* the span of the tick clock in the games played to the lock
HorizonFall == 4800
MaxTicksFall == StartTicks + HorizonFall

VARIABLES
  grid, score, last_skill_time, current_tetrimino, next_tetrimino,
  falling_speed, last_fall_time, total_lines_cleared, game_over, paused,
  held_keys, last_move_time,
  ticks, wall

gsvars == <<grid, score, last_skill_time, current_tetrimino, next_tetrimino,
            falling_speed, last_fall_time, total_lines_cleared, game_over,
            paused>>
keyvars == <<held_keys, last_move_time>>
vars == <<gsvars, keyvars, ticks, wall>>

(***************************************************************************)
(* Tetrimino                                                               *)
(***************************************************************************)
Tetrimino(shape, color) ==
  [shape |-> shape, color |-> color,
   x |-> (GRID_WIDTH \div 2) - (Len(shape[1]) \div 2), y |-> 0]

\* shape[::-1]
Reversed(m) == [k \in 1..Len(m) |-> m[Len(m) + 1 - k]]

\* zip that takes the matrix for a square one
Zip_square(m) == [i \in 1..Len(m) |-> [j \in 1..Len(m) |-> m[j][i]]]

\* [list(row) for row in zip(*m)]
Zip(m) == [i \in 1..Len(m[1]) |-> [j \in 1..Len(m) |-> m[j][i]]]

\* the candidate shape of rotate
Rotated(shape) == Zip(Reversed(shape))

valid_move(t, g, dx, dy) ==
  \A row \in 0..(Len(t.shape) - 1) :
    \A col \in 0..(Len(t.shape[row + 1]) - 1) :
      t.shape[row + 1][col + 1] # 0 =>
        LET x_pos == t.x + col + dx
            y_pos == t.y + row + dy
        IN  /\ ~(x_pos < 0 \/ x_pos >= GRID_WIDTH \/ y_pos >= GRID_HEIGHT)
            /\ ~(y_pos >= 0 /\ g[y_pos + 1][x_pos + 1] # 0)

\* move without the validity check
move_unchecked(t, g, dx, dy) == [t EXCEPT !.x = t.x + dx, !.y = t.y + dy]

\* move that adds dx before the test and does not take it back
move_keeps_dx(t, g, dx, dy) ==
  IF valid_move(t, g, dx, dy)
  THEN [t EXCEPT !.x = t.x + dx, !.y = t.y + dy]
  ELSE [t EXCEPT !.x = t.x + dx]

\* the piece after move(grid, dx, dy); the return value is valid_move
move(t, g, dx, dy) ==
  IF valid_move(t, g, dx, dy)
  THEN [t EXCEPT !.x = t.x + dx, !.y = t.y + dy]
  ELSE t

\* rotate that commits the candidate without checking it
rotate_unchecked(t, g) == [t EXCEPT !.shape = Rotated(t.shape)]

\* rotate that checks the old shape instead of the candidate
rotate_checks_old(t, g) ==
  IF ~valid_move(t, g, 0, 0) THEN t ELSE [t EXCEPT !.shape = Rotated(t.shape)]

\* the piece after rotate(grid, settings)
rotate(t, g) ==
  LET cand == [t EXCEPT !.shape = Rotated(t.shape)]
  IN  IF ~valid_move(cand, g, 0, 0) THEN t ELSE cand

(***************************************************************************)
(* GameState                                                               *)
(***************************************************************************)
EmptyRow == [c \in 1..GRID_WIDTH |-> 0]
EmptyGrid == [r \in 1..GRID_HEIGHT |-> EmptyRow]

new_tetrimino(shape_idx) ==
  Tetrimino(SHAPES[shape_idx + 1], SHAPE_COLORS[shape_idx + 1])

ShapeIdx == 0..(Len(SHAPES) - 1)

HasEmptyCell(row) == \E c \in 1..Len(row) : row[c] = 0

\* clear_lines that puts the new empty rows below the kept rows
clear_lines_bottom(g) ==
  LET new_grid == SelectSeq(g, HasEmptyCell)
      lines_cleared == GRID_HEIGHT - Len(new_grid)
  IN  [grid |-> new_grid \o [i \in 1..lines_cleared |-> EmptyRow],
       lines_cleared |-> lines_cleared,
       gain |-> IF lines_cleared > 0
                THEN 50 * (2 ^ lines_cleared - 1) ELSE 0]

\* clear_lines that scores 50 points per row
clear_lines_linear(g) ==
  LET new_grid == SelectSeq(g, HasEmptyCell)
      lines_cleared == GRID_HEIGHT - Len(new_grid)
  IN  [grid |-> [i \in 1..lines_cleared |-> EmptyRow] \o new_grid,
       lines_cleared |-> lines_cleared,
       gain |-> 50 * lines_cleared]

\* clear_lines that removes the topmost full row only
clear_lines_first(g) ==
  LET full == { i \in 1..Len(g) : ~HasEmptyCell(g[i]) }
      first == CHOOSE i \in full : \A j \in full : i <= j
      lines_cleared == IF full = {} THEN 0 ELSE 1
  IN  [grid |-> IF full = {} THEN g
                ELSE <<EmptyRow>> \o SubSeq(g, 1, first - 1)
                       \o SubSeq(g, first + 1, Len(g)),
       lines_cleared |-> lines_cleared,
       gain |-> IF lines_cleared > 0
                THEN 50 * (2 ^ lines_cleared - 1) ELSE 0]

\* clear_lines: the new grid, the return value and the score gained
clear_lines(g) ==
  LET new_grid == SelectSeq(g, HasEmptyCell)
      lines_cleared == GRID_HEIGHT - Len(new_grid)
  IN  [grid |-> [i \in 1..lines_cleared |-> EmptyRow] \o new_grid,
       lines_cleared |-> lines_cleared,
       gain |-> IF lines_cleared > 0
                THEN 50 * (2 ^ lines_cleared - 1) ELSE 0]

\* the lock loop with the two grid indices exchanged
LockInto_transposed(g, t) ==
  [r \in 1..GRID_HEIGHT |->
     [c \in 1..GRID_WIDTH |->
        LET row == (c - 1) - t.x
            col == (r - 1) - t.y
        IN  IF /\ row >= 0 /\ row < Len(t.shape)
               /\ col >= 0 /\ col < Len(t.shape[row + 1])
               /\ t.shape[row + 1][col + 1] # 0
            THEN t.color
            ELSE g[r][c]]]

\* the grid after the lock loop of update has written piece t into g
LockInto(g, t) ==
  [r \in 1..GRID_HEIGHT |->
     [c \in 1..GRID_WIDTH |->
        LET row == (r - 1) - t.y
            col == (c - 1) - t.x
        IN  IF /\ row >= 0 /\ row < Len(t.shape)
               /\ col >= 0 /\ col < Len(t.shape[row + 1])
               /\ t.shape[row + 1][col + 1] # 0
            THEN t.color
            ELSE g[r][c]]]


\* the rebuild that empties the bottom rows and forgets the shift
CrushedGrid_noshift(g) ==
  [r \in 1..GRID_HEIGHT |->
     IF r - 1 >= GRID_HEIGHT - SKILL_ROWS THEN EmptyRow ELSE g[r]]

\* the grid after the two steps of clear_last_three_rows that rebuild it
CrushedGrid(g) ==
  LET zeroed == [r \in 1..GRID_HEIGHT |->
                   IF r - 1 >= GRID_HEIGHT - SKILL_ROWS THEN EmptyRow ELSE g[r]]
  IN  [i \in 1..SKILL_ROWS |-> EmptyRow]
        \o SubSeq(zeroed, 1, GRID_HEIGHT - SKILL_ROWS)

has_blocks(g) ==
  \E y \in (GRID_HEIGHT - SKILL_ROWS)..(GRID_HEIGHT - 1) :
    \E x \in 0..(GRID_WIDTH - 1) : g[y + 1][x + 1] # 0

\* clear_last_three_rows without the cooldown test
skill_fires_no_cooldown(now) ==
  /\ ~(GRID_HEIGHT < SKILL_ROWS)
  /\ has_blocks(grid)

\* the return value of clear_last_three_rows read at wall-clock time now
skill_fires(now) ==
  /\ ~(now - last_skill_time < SKILL_COOLDOWN)
  /\ ~(GRID_HEIGHT < SKILL_ROWS)
  /\ has_blocks(grid)

Max(a, b) == IF a > b THEN a ELSE b

\* the speed-up without the floor
NextFallingSpeed_nofloor(speed, total) ==
  IF total >= LINES_PER_LEVEL THEN speed - SPEED_STEP ELSE speed

\* the speed-up that takes one step for every row of the lock
NextFallingSpeed_per_row(speed, total) ==
  IF total >= LINES_PER_LEVEL
  THEN Max(MIN_FALLING_SPEED, speed - SPEED_STEP * (total - LINES_PER_LEVEL + 1))
  ELSE speed

\* falling_speed after a lock that brought the line counter to total
NextFallingSpeed(speed, total) ==
  IF total >= LINES_PER_LEVEL
  THEN Max(MIN_FALLING_SPEED, speed - SPEED_STEP) ELSE speed

\* the speed-up that restarts the line counter at 0
NextLineCounter_restart(total) ==
  IF total >= LINES_PER_LEVEL THEN 0 ELSE total

\* total_lines_cleared after a lock that brought the line counter to total
NextLineCounter(total) ==
  IF total >= LINES_PER_LEVEL THEN total - LINES_PER_LEVEL ELSE total

\* should_move of the held-key loop of update, read at time now
should_move(key, now) ==
  /\ held_keys[key]
  /\ IF last_move_time[key] = 0
     THEN now - last_move_time[key] > INITIAL_MOVE_DELAY
     ELSE now - last_move_time[key] > REPEAT_MOVE_DELAY

\* the active piece after the held-key loop of update
AfterHeldKeys(now) ==
  LET p1 == IF should_move(K_LEFT, now)
            THEN move(current_tetrimino, grid, -1, 0) ELSE current_tetrimino
      p2 == IF should_move(K_RIGHT, now) THEN move(p1, grid, 1, 0) ELSE p1
  IN  IF should_move(K_DOWN, now) THEN move(p2, grid, 0, 1) ELSE p2

(***************************************************************************)
(* GameState.reset, reached from K_r in the game loop and from the restart *)
(* after game over; cur_idx and next_idx are the two random draws.         *)
(***************************************************************************)
\* reset that leaves the time of the last skill use alone
Reset_keeps_skill(cur_idx, next_idx) ==
  /\ grid' = EmptyGrid
  /\ score' = 0
  /\ current_tetrimino' = new_tetrimino(cur_idx)
  /\ next_tetrimino' = new_tetrimino(next_idx)
  /\ falling_speed' = INITIAL_FALLING_SPEED
  /\ last_fall_time' = ticks
  /\ total_lines_cleared' = 0
  /\ game_over' = FALSE
  /\ paused' = FALSE
  /\ UNCHANGED <<last_skill_time, keyvars, ticks, wall>>

Reset(cur_idx, next_idx) ==
  /\ grid' = EmptyGrid
  /\ score' = 0
  /\ last_skill_time' = -SKILL_COOLDOWN
  /\ current_tetrimino' = new_tetrimino(cur_idx)
  /\ next_tetrimino' = new_tetrimino(next_idx)
  /\ falling_speed' = INITIAL_FALLING_SPEED
  /\ last_fall_time' = ticks
  /\ total_lines_cleared' = 0
  /\ game_over' = FALSE
  /\ paused' = FALSE
  /\ UNCHANGED <<keyvars, ticks, wall>>

\* the guard of update without the game-over test
Suspended_paused_only == paused

\* the guard of update without the pause test
Suspended_game_over_only == game_over

\* the guard of update
Suspended == paused \/ game_over

\* update that writes the last move time only when the repeat move succeeded
Update_stamps_moved(next_idx) ==
  IF Suspended
  THEN UNCHANGED vars
  ELSE
    LET p1 == IF should_move(K_LEFT, ticks)
              THEN move(current_tetrimino, grid, -1, 0) ELSE current_tetrimino
        p2 == IF should_move(K_RIGHT, ticks) THEN move(p1, grid, 1, 0) ELSE p1
        p == IF should_move(K_DOWN, ticks) THEN move(p2, grid, 0, 1) ELSE p2
        moved == [k \in MoveKeys |->
                    IF k = K_LEFT THEN p1 # current_tetrimino
                    ELSE IF k = K_RIGHT THEN p2 # p1 ELSE p # p2]
        fall_due == ticks - last_fall_time > falling_speed
        locks == fall_due /\ ~valid_move(p, grid, 0, 1)
        cl == clear_lines(LockInto(grid, p))
        total == total_lines_cleared + cl.lines_cleared
    IN  /\ last_move_time' =
             [k \in MoveKeys |->
                IF should_move(k, ticks) /\ moved[k]
                THEN ticks ELSE last_move_time[k]]
        /\ last_fall_time' = IF fall_due THEN ticks ELSE last_fall_time
        /\ IF locks
           THEN /\ grid' = cl.grid
                /\ score' = score + cl.gain
                /\ total_lines_cleared' = NextLineCounter(total)
                /\ falling_speed' = NextFallingSpeed(falling_speed, total)
                /\ current_tetrimino' = next_tetrimino
                /\ next_tetrimino' = new_tetrimino(next_idx)
                /\ game_over' = ~valid_move(next_tetrimino, cl.grid, 0, 0)
           ELSE /\ current_tetrimino' =
                     IF fall_due THEN move(p, grid, 0, 1) ELSE p
                /\ UNCHANGED <<grid, score, total_lines_cleared,
                               falling_speed, next_tetrimino, game_over>>
        /\ UNCHANGED <<last_skill_time, paused, held_keys, ticks, wall>>

\* update that makes up for a missed fall step
Update_catches_up(next_idx) ==
  IF Suspended
  THEN UNCHANGED vars
  ELSE
    LET p == AfterHeldKeys(ticks)
        fall_due == ticks - last_fall_time > falling_speed
        locks == fall_due /\ ~valid_move(p, grid, 0, 1)
        late == ticks - last_fall_time > 2 * falling_speed
        cl == clear_lines(LockInto(grid, p))
        total == total_lines_cleared + cl.lines_cleared
    IN  /\ last_move_time' =
             [k \in MoveKeys |->
                IF should_move(k, ticks) THEN ticks ELSE last_move_time[k]]
        /\ last_fall_time' = IF fall_due THEN ticks ELSE last_fall_time
        /\ IF locks
           THEN /\ grid' = cl.grid
                /\ score' = score + cl.gain
                /\ total_lines_cleared' = NextLineCounter(total)
                /\ falling_speed' = NextFallingSpeed(falling_speed, total)
                /\ current_tetrimino' = next_tetrimino
                /\ next_tetrimino' = new_tetrimino(next_idx)
                /\ game_over' = ~valid_move(next_tetrimino, cl.grid, 0, 0)
           ELSE /\ current_tetrimino' =
                     IF ~fall_due THEN p
                     ELSE IF late THEN move(move(p, grid, 0, 1), grid, 0, 1)
                     ELSE move(p, grid, 0, 1)
                /\ UNCHANGED <<grid, score, total_lines_cleared,
                               falling_speed, next_tetrimino, game_over>>
        /\ UNCHANGED <<last_skill_time, paused, held_keys, ticks, wall>>

\* update that puts the lock off while a held key moves the piece
Update_lock_delay(next_idx) ==
  IF Suspended
  THEN UNCHANGED vars
  ELSE
    LET p == AfterHeldKeys(ticks)
        fall_due == ticks - last_fall_time > falling_speed
        locks == /\ fall_due /\ ~valid_move(p, grid, 0, 1)
                 /\ p = current_tetrimino
        cl == clear_lines(LockInto(grid, p))
        total == total_lines_cleared + cl.lines_cleared
    IN  /\ last_move_time' =
             [k \in MoveKeys |->
                IF should_move(k, ticks) THEN ticks ELSE last_move_time[k]]
        /\ last_fall_time' = IF fall_due THEN ticks ELSE last_fall_time
        /\ IF locks
           THEN /\ grid' = cl.grid
                /\ score' = score + cl.gain
                /\ total_lines_cleared' = NextLineCounter(total)
                /\ falling_speed' = NextFallingSpeed(falling_speed, total)
                /\ current_tetrimino' = next_tetrimino
                /\ next_tetrimino' = new_tetrimino(next_idx)
                /\ game_over' = ~valid_move(next_tetrimino, cl.grid, 0, 0)
           ELSE /\ current_tetrimino' =
                     IF fall_due THEN move(p, grid, 0, 1) ELSE p
                /\ UNCHANGED <<grid, score, total_lines_cleared,
                               falling_speed, next_tetrimino, game_over>>
        /\ UNCHANGED <<last_skill_time, paused, held_keys, ticks, wall>>

\* update that draws the new active piece instead of promoting the preview
Update_draws_active(next_idx) ==
  IF Suspended
  THEN UNCHANGED vars
  ELSE
    LET p == AfterHeldKeys(ticks)
        fall_due == ticks - last_fall_time > falling_speed
        locks == fall_due /\ ~valid_move(p, grid, 0, 1)
        cl == clear_lines(LockInto(grid, p))
        total == total_lines_cleared + cl.lines_cleared
    IN  /\ last_move_time' =
             [k \in MoveKeys |->
                IF should_move(k, ticks) THEN ticks ELSE last_move_time[k]]
        /\ last_fall_time' = IF fall_due THEN ticks ELSE last_fall_time
        /\ IF locks
           THEN /\ grid' = cl.grid
                /\ score' = score + cl.gain
                /\ total_lines_cleared' = NextLineCounter(total)
                /\ falling_speed' = NextFallingSpeed(falling_speed, total)
                /\ current_tetrimino' = new_tetrimino(next_idx)
                /\ next_tetrimino' = next_tetrimino
                /\ game_over' = ~valid_move(new_tetrimino(next_idx), cl.grid, 0, 0)
           ELSE /\ current_tetrimino' =
                     IF fall_due THEN move(p, grid, 0, 1) ELSE p
                /\ UNCHANGED <<grid, score, total_lines_cleared,
                               falling_speed, next_tetrimino, game_over>>
        /\ UNCHANGED <<last_skill_time, paused, held_keys, ticks, wall>>

(***************************************************************************)
(* GameState.update; next_idx is the random draw of new_tetrimino when the *)
(* piece locks.                                                            *)
(***************************************************************************)
Update(next_idx) ==
  IF Suspended
  THEN UNCHANGED vars
  ELSE
    LET p == AfterHeldKeys(ticks)
        fall_due == ticks - last_fall_time > falling_speed
        locks == fall_due /\ ~valid_move(p, grid, 0, 1)
        cl == clear_lines(LockInto(grid, p))
        total == total_lines_cleared + cl.lines_cleared
    IN  /\ last_move_time' =
             [k \in MoveKeys |->
                IF should_move(k, ticks) THEN ticks ELSE last_move_time[k]]
        /\ last_fall_time' = IF fall_due THEN ticks ELSE last_fall_time
        /\ IF locks
           THEN /\ grid' = cl.grid
                /\ score' = score + cl.gain
                /\ total_lines_cleared' = NextLineCounter(total)
                /\ falling_speed' = NextFallingSpeed(falling_speed, total)
                /\ current_tetrimino' = next_tetrimino
                /\ next_tetrimino' = new_tetrimino(next_idx)
                /\ game_over' = ~valid_move(next_tetrimino, cl.grid, 0, 0)
           ELSE /\ current_tetrimino' =
                     IF fall_due THEN move(p, grid, 0, 1) ELSE p
                /\ UNCHANGED <<grid, score, total_lines_cleared,
                               falling_speed, next_tetrimino, game_over>>
        /\ UNCHANGED <<last_skill_time, paused, held_keys, ticks, wall>>

(***************************************************************************)
(* GameController._handle_event; the game loop delivers events only until  *)
(* update has set game_over.                                               *)
(***************************************************************************)
KeyOffset(key) ==
  IF key = K_LEFT THEN <<-1, 0>>
  ELSE IF key = K_RIGHT THEN <<1, 0>> ELSE <<0, 1>>

\* KEYDOWN of a move key that locks the piece when a soft drop is rejected
KeyDownMove_locks(key) ==
  /\ ~game_over
  /\ IF paused
     THEN UNCHANGED vars
     ELSE /\ held_keys' = [held_keys EXCEPT ![key] = TRUE]
          /\ last_move_time' = [last_move_time EXCEPT ![key] = ticks]
          /\ IF key = K_DOWN /\ ~valid_move(current_tetrimino, grid, 0, 1)
             THEN /\ grid' = LockInto(grid, current_tetrimino)
                  /\ current_tetrimino' = next_tetrimino
             ELSE /\ grid' = grid
                  /\ current_tetrimino' =
                       move(current_tetrimino, grid, KeyOffset(key)[1],
                            KeyOffset(key)[2])
          /\ UNCHANGED <<score, last_skill_time, next_tetrimino,
                         falling_speed, last_fall_time, total_lines_cleared,
                         game_over, paused, ticks, wall>>

\* KEYDOWN of K_LEFT, K_RIGHT or K_DOWN
KeyDownMove(key) ==
  /\ ~game_over
  /\ IF paused
     THEN UNCHANGED vars
     ELSE /\ held_keys' = [held_keys EXCEPT ![key] = TRUE]
          /\ last_move_time' = [last_move_time EXCEPT ![key] = ticks]
          /\ current_tetrimino' =
               move(current_tetrimino, grid, KeyOffset(key)[1],
                    KeyOffset(key)[2])
          /\ UNCHANGED <<grid, score, last_skill_time, next_tetrimino,
                         falling_speed, last_fall_time, total_lines_cleared,
                         game_over, paused, ticks, wall>>

\* KEYDOWN of K_UP
KeyDownRotate ==
  /\ ~game_over
  /\ IF paused
     THEN UNCHANGED current_tetrimino
     ELSE current_tetrimino' = rotate(current_tetrimino, grid)
  /\ UNCHANGED <<grid, score, last_skill_time, next_tetrimino,
                 falling_speed, last_fall_time, total_lines_cleared,
                 game_over, paused, keyvars, ticks, wall>>

\* K_f with the time of use written before the tests
KeyDownSkill_stamps ==
  /\ ~game_over
  /\ IF ~paused /\ skill_fires(wall)
     THEN /\ grid' = CrushedGrid(grid)
          /\ score' = score + SKILL_SCORE
     ELSE UNCHANGED <<grid, score>>
  /\ last_skill_time' = IF paused THEN last_skill_time ELSE wall
  /\ UNCHANGED <<current_tetrimino, next_tetrimino, falling_speed,
                 last_fall_time, total_lines_cleared, game_over, paused,
                 keyvars, ticks, wall>>

\* KEYDOWN of K_f: clear_last_three_rows unless paused
KeyDownSkill ==
  /\ ~game_over
  /\ IF ~paused /\ skill_fires(wall)
     THEN /\ grid' = CrushedGrid(grid)
          /\ score' = score + SKILL_SCORE
          /\ last_skill_time' = wall
     ELSE UNCHANGED <<grid, score, last_skill_time>>
  /\ UNCHANGED <<current_tetrimino, next_tetrimino, falling_speed,
                 last_fall_time, total_lines_cleared, game_over, paused,
                 keyvars, ticks, wall>>

\* KEYDOWN of K_RETURN
KeyDownPause ==
  /\ ~game_over
  /\ paused' = ~paused
  /\ UNCHANGED <<grid, score, last_skill_time, current_tetrimino,
                 next_tetrimino, falling_speed, last_fall_time,
                 total_lines_cleared, game_over, keyvars, ticks, wall>>

\* KEYUP of K_LEFT, K_RIGHT or K_DOWN
KeyUp(key) ==
  /\ ~game_over
  /\ held_keys' = [held_keys EXCEPT ![key] = FALSE]
  /\ UNCHANGED <<gsvars, last_move_time, ticks, wall>>

(***************************************************************************)
(* The environment: the millisecond clock advances by d up to max          *)
(***************************************************************************)
Tick(d, max) ==
  /\ ticks + d <= max
  /\ ticks' = ticks + d
  /\ UNCHANGED <<gsvars, keyvars, wall>>

\* the wall clock advances by d seconds up to max
WallTick(d, max) ==
  /\ wall + d <= max
  /\ wall' = wall + d
  /\ UNCHANGED <<gsvars, keyvars, ticks>>

TickSteps == {600}
WallSteps == {15}
\* the tick clock between two frames of SpecKeys
KeyTickSteps == {150}

\* the draws of the random generator that are followed
DrawIdx == {0, 3}

\* no later reading of the millisecond clock is admissible
LastLayer(max) == \A d \in TickSteps : ticks + d > max

\* the fall step (or the reset) at the last clock reading has been taken
Halted(max) == LastLayer(max) /\ last_fall_time = ticks

(***************************************************************************)
(* Games in play.  Every grid below is built by locking pieces without     *)
(* completing a row: vertical I pieces in whole columns, O pieces, J       *)
(* pieces, and uses of the row-crush skill.                                *)
(***************************************************************************)
\* columns 0..7 filled from row top down by O pieces (rows 2, 3) and
\* vertical I pieces (rows 4..19); columns 8 and 9 empty
WellGrid(top) ==
  [r \in 1..GRID_HEIGHT |->
     [c \in 1..GRID_WIDTH |->
        IF r - 1 >= top /\ c - 1 < 8
        THEN (IF r - 1 < 4 THEN WHITE ELSE CYAN) ELSE 0]]

\* the bottom k rows filled by vertical I pieces except column 3 (k < 4:
\* what the row-crush skill leaves of taller columns)
PitGrid(k) ==
  [r \in 1..GRID_HEIGHT |->
     [c \in 1..GRID_WIDTH |->
        IF r - 1 >= GRID_HEIGHT - k /\ c - 1 # 3 THEN CYAN ELSE 0]]

\* vertical I pieces in columns 0..2 and 4..6 of rows 16..19 and two J
\* pieces on top of each other in columns 7..9: rows 16 and 18 lack only
\* column 3, rows 17 and 19 lack columns 3, 8 and 9
StepGrid ==
  [r \in 1..GRID_HEIGHT |->
     [c \in 1..GRID_WIDTH |->
        IF r - 1 < 16 \/ c - 1 = 3 THEN 0
        ELSE IF c - 1 < 7 THEN CYAN
        ELSE IF c - 1 = 7 \/ r - 1 \in {16, 18} THEN MAGENTA
        ELSE 0]]

InPlay(g, cur_idx, next_idx, sc, speed, lines, skill_time, key_time) ==
  /\ grid = g
  /\ score = sc
  /\ last_skill_time = skill_time
  /\ current_tetrimino = new_tetrimino(cur_idx)
  /\ next_tetrimino = new_tetrimino(next_idx)
  /\ falling_speed = speed
  /\ last_fall_time = StartTicks
  /\ total_lines_cleared = lines
  /\ game_over = FALSE
  /\ paused = FALSE
  /\ held_keys = [k \in MoveKeys |-> FALSE]
  /\ last_move_time = [k \in MoveKeys |-> key_time]
  /\ ticks = StartTicks
  /\ wall = StartWall

(***************************************************************************)
(* Spec: every handler, followed for one fall period from a game in which  *)
(* the settled blocks reach up to row 2, and from the new games that a     *)
(* reset starts.                                                           *)
(***************************************************************************)
Init ==
  \E pair \in {<<0, 3>>, <<3, 0>>} :
    InPlay(WellGrid(2), pair[1], pair[2], 0, INITIAL_FALLING_SPEED, 0,
           -SKILL_COOLDOWN, PastTicks)

Next ==
  /\ ~Halted(MaxTicks)
  /\ \/ \E i \in DrawIdx : Update(i)
     \/ \E k \in MoveKeys : KeyDownMove(k)
     \/ \E k \in MoveKeys : KeyUp(k)
     \/ KeyDownRotate
     \/ KeyDownSkill
     \/ KeyDownPause
     \/ \E i, j \in DrawIdx : Reset(i, j)
     \/ \E d \in TickSteps : Tick(d, MaxTicks)

Spec == Init /\ [][Next]_vars

(***************************************************************************)
(* SpecDrop: soft drop, rotation and the update tick, followed for two     *)
(* fall periods from a new game with any of the seven pieces and from      *)
(* games in which an I piece can complete 1 to 4 rows.                     *)
(***************************************************************************)
\* score, falling speed and line counter after n four-row clears
History == { <<0, 500, 0>>, <<1500, 500, 8>>, <<14250, 150, 6>>,
             <<16500, 100, 8>> }

\* the number of row-crush uses that leave PitGrid(k)
Crushes(k) == IF k = 4 THEN 0 ELSE k

InitNew ==
  \E i \in ShapeIdx, j \in DrawIdx :
    InPlay(EmptyGrid, i, j, 0, INITIAL_FALLING_SPEED, 0, -SKILL_COOLDOWN, 0)

InitPit ==
  \E k \in 1..4, h \in History, j \in DrawIdx :
    InPlay(PitGrid(k), 0, j, h[1] + SKILL_SCORE * Crushes(k), h[2], h[3],
           IF k = 4 THEN -SKILL_COOLDOWN ELSE StartWall - 60, PastTicks)

InitStep ==
  \E h \in History, j \in DrawIdx :
    InPlay(StepGrid, 0, j, h[1], h[2], h[3], -SKILL_COOLDOWN, PastTicks)

InitBrink ==
  \E i \in DrawIdx, j \in DrawIdx :
    InPlay(WellGrid(2), i, j, 0, INITIAL_FALLING_SPEED, 0, -SKILL_COOLDOWN,
           PastTicks)

InitDrop == InitNew \/ InitPit \/ InitStep \/ InitBrink

NextDrop ==
  /\ ~Halted(MaxTicksDrop)
  /\ \/ \E i \in DrawIdx : Update(i)
     \/ KeyDownMove(K_DOWN)
     \/ KeyUp(K_DOWN)
     \/ KeyDownRotate
     \/ \E i, j \in DrawIdx : LastLayer(MaxTicksDrop) /\ Reset(i, j)
     \/ \E d \in TickSteps : Tick(d, MaxTicksDrop)

SpecDrop == InitDrop /\ [][NextDrop]_vars

(***************************************************************************)
(* SpecSkill: the row-crush skill with the wall clock running, next to     *)
(* left moves, soft drop and the update tick, followed for one fall        *)
(* period and one cooldown from a new game, from the pits, from the        *)
(* stepped rows, from the well and from a game with an overhang.           *)
(***************************************************************************)
\* a vertical I piece in column 0 (rows 16..19) and a horizontal I piece
\* resting on it (row 15, columns 0..3): columns 1..3 are empty below row 15
OverhangGrid ==
  [r \in 1..GRID_HEIGHT |->
     [c \in 1..GRID_WIDTH |->
        IF \/ (c - 1 = 0 /\ r - 1 >= 16)
           \/ (r - 1 = 15 /\ c - 1 < 4)
        THEN CYAN ELSE 0]]

InitSkill ==
  \/ \E i \in DrawIdx, j \in DrawIdx :
       \/ InPlay(EmptyGrid, i, j, 0, INITIAL_FALLING_SPEED, 0,
                 -SKILL_COOLDOWN, 0)
       \/ InPlay(OverhangGrid, i, j, 0, INITIAL_FALLING_SPEED, 0,
                 -SKILL_COOLDOWN, PastTicks)
       \/ InPlay(StepGrid, i, j, 0, INITIAL_FALLING_SPEED, 0,
                 -SKILL_COOLDOWN, PastTicks)
       \/ InPlay(WellGrid(2), i, j, 0, INITIAL_FALLING_SPEED, 0,
                 -SKILL_COOLDOWN, PastTicks)
  \/ \E k \in 1..4, j \in DrawIdx :
       InPlay(PitGrid(k), 0, j, SKILL_SCORE * Crushes(k),
              INITIAL_FALLING_SPEED, 0,
              IF k = 4 THEN -SKILL_COOLDOWN ELSE StartWall - 60, PastTicks)

NextSkill ==
  /\ ~Halted(MaxTicksSkill)
  /\ \/ \E i \in DrawIdx : Update(i)
     \/ KeyDownMove(K_LEFT)
     \/ KeyDownMove(K_DOWN)
     \/ KeyDownSkill
     \/ \E i, j \in DrawIdx : LastLayer(MaxTicksSkill) /\ Reset(i, j)
     \/ \E d \in TickSteps : Tick(d, MaxTicksSkill)
     \/ \E d \in WallSteps : WallTick(d, MaxWall)

SpecSkill == InitSkill /\ [][NextSkill]_vars

(***************************************************************************)
(* SpecKeys: keys pressed at the first clock reading of a new game and     *)
(* kept held, with update called at any of the later readings, 150 ms      *)
(* apart.                                                                  *)
(***************************************************************************)
InitKeys ==
  \E i \in DrawIdx, j \in DrawIdx :
    InPlay(EmptyGrid, i, j, 0, INITIAL_FALLING_SPEED, 0, -SKILL_COOLDOWN, 0)

NextKeys ==
  \/ \E i \in DrawIdx : Update(i)
  \/ \E k \in MoveKeys : ticks = StartTicks /\ KeyDownMove(k)
  \/ \E d \in KeyTickSteps : Tick(d, MaxTicksKeys)

SpecKeys == InitKeys /\ [][NextKeys]_vars

(***************************************************************************)
(* SpecReset: reset at any moment of games on the brink of game over, at   *)
(* every falling speed of History, with soft drop, the skill, pause and    *)
(* the update tick, followed for one fall period of the old and of the new *)
(* game.                                                                   *)
(***************************************************************************)
InitReset ==
  \E h \in History, i \in DrawIdx, j \in DrawIdx :
    InPlay(WellGrid(2), i, j, h[1], h[2], h[3], -SKILL_COOLDOWN, PastTicks)

NextReset ==
  \/ \E i \in DrawIdx : Update(i)
  \/ KeyDownMove(K_DOWN)
  \/ KeyDownSkill
  \/ KeyDownPause
  \/ \E i, j \in DrawIdx : Reset(i, j)
  \/ \E d \in TickSteps : Tick(d, MaxTicks)

SpecReset == InitReset /\ [][NextReset]_vars

(***************************************************************************)
(* SpecTurn: rotation, soft drop and the update tick, followed for one     *)
(* fall period from a new game with any of the seven pieces and from the   *)
(* pit of four rows.                                                       *)
(***************************************************************************)
InitTurn ==
  \/ InitNew
  \/ \E j \in DrawIdx :
       InPlay(PitGrid(4), 0, j, 0, INITIAL_FALLING_SPEED, 0, -SKILL_COOLDOWN,
              PastTicks)

NextTurn ==
  /\ ~Halted(MaxTicks)
  /\ \/ \E i \in DrawIdx : Update(i)
     \/ KeyDownMove(K_DOWN)
     \/ KeyDownRotate
     \/ \E d \in TickSteps : Tick(d, MaxTicks)

SpecTurn == InitTurn /\ [][NextTurn]_vars

(***************************************************************************)
(* SpecRepeat: as SpecKeys, from a new game and from the game in which the *)
(* settled blocks reach up to row 2, where a piece at its spawn row cannot *)
(* move down.                                                              *)
(***************************************************************************)
InitRepeat ==
  \/ InitKeys
  \/ \E i \in DrawIdx, j \in DrawIdx :
       InPlay(WellGrid(2), i, j, 0, INITIAL_FALLING_SPEED, 0, -SKILL_COOLDOWN,
              PastTicks)

SpecRepeat == InitRepeat /\ [][NextKeys]_vars

(***************************************************************************)
(* Games in which the active piece locks at the second clock reading, with *)
(* every archetype as active piece, as preview and as the next draw; the   *)
(* player shifts right and rotates.                                        *)
(***************************************************************************)
InitSpawn ==
  \E i \in ShapeIdx, j \in ShapeIdx :
    InPlay(WellGrid(3), i, j, 0, INITIAL_FALLING_SPEED, 0, -SKILL_COOLDOWN,
           PastTicks)

NextSpawn ==
  /\ ~Halted(MaxTicks)
  /\ \/ \E i \in ShapeIdx : Update(i)
     \/ KeyDownMove(K_RIGHT)
     \/ KeyUp(K_RIGHT)
     \/ KeyDownRotate
     \/ \E d \in TickSteps : Tick(d, MaxTicks)

SpecSpawn == InitSpawn /\ [][NextSpawn]_vars

(***************************************************************************)
(* Games on the well with frames 150 ms apart: keys pressed at the first   *)
(* clock reading stay held, the player rotates and uses the skill at any   *)
(* time and restarts at the last clock reading.                            *)
(***************************************************************************)
NextFrame ==
  \/ \E i \in DrawIdx : Update(i)
  \/ \E k \in MoveKeys : ticks = StartTicks /\ KeyDownMove(k)
  \/ KeyDownRotate
  \/ KeyDownSkill
  \/ \E i, j \in DrawIdx :
       (\A d \in KeyTickSteps : ticks + d > MaxTicksKeys) /\ Reset(i, j)
  \/ \E d \in KeyTickSteps : Tick(d, MaxTicksKeys)

SpecFrame == InitBrink /\ [][NextFrame]_vars

(***************************************************************************)
(* Games played to the lock.  The settled rows are horizontal I pieces:    *)
(* counted from the floor, the pairs of rows leave columns 8, 9 and        *)
(* columns 0, 1 empty in turn, so no well is deeper than two rows.  The    *)
(* loop calls update once per frame and frames are 600 ms apart, so a      *)
(* fall step is due in every frame; keys once pressed stay held; the clock *)
(* is followed until the first piece has locked.                           *)
(***************************************************************************)
TowerGrid(top) ==
  [r \in 1..GRID_HEIGHT |->
     [c \in 1..GRID_WIDTH |->
        IF r - 1 < top THEN 0
        ELSE IF ((GRID_HEIGHT - r) \div 2) % 2 = 0
             THEN (IF c - 1 < 8 THEN CYAN ELSE 0)
             ELSE (IF c - 1 >= 2 THEN CYAN ELSE 0)]]

InitFall ==
  \E i \in DrawIdx, j \in DrawIdx :
    InPlay(TowerGrid(2), i, j, 0, INITIAL_FALLING_SPEED, 0, -SKILL_COOLDOWN,
           PastTicks)

\* the update of the current frame has been called
FrameDone == Suspended \/ ~(ticks - last_fall_time > falling_speed)

UpdateFall == \E i \in DrawIdx : Update(i)

\* the first piece of the game is still in play
FirstPiece == grid \in {TowerGrid(2), CrushedGrid(TowerGrid(2))}

\* the next frame, until the first piece has locked
TickFall ==
  \E d \in TickSteps : FrameDone /\ FirstPiece /\ Tick(d, MaxTicksFall)

NextFall ==
  \/ UpdateFall
  \/ \E k \in MoveKeys : KeyDownMove(k)
  \/ KeyDownRotate
  \/ KeyDownSkill
  \/ TickFall

\* the clock does not stop between two frames
SpecFall == InitFall /\ [][NextFall]_vars /\ WF_vars(TickFall)

(***************************************************************************)
(* Vocabulary of the properties, defined from the grid and the piece       *)
(* without the operators of the model above.                               *)
(***************************************************************************)
\* the grid coordinates <<x, y>> of the occupied cells of piece t
Occupied(t) ==
  { <<t.x + rc[2] - 1, t.y + rc[1] - 1>> :
      rc \in { q \in (1..Len(t.shape)) \X (1..Len(t.shape[1])) :
                 t.shape[q[1]][q[2]] # 0 } }

InGrid(cell) ==
  /\ cell[1] >= 0 /\ cell[1] < GRID_WIDTH
  /\ cell[2] >= 0 /\ cell[2] < GRID_HEIGHT

\* every occupied cell of t is inside the grid and on an empty cell of g
Fits(t, g) ==
  \A cell \in Occupied(t) : InGrid(cell) /\ g[cell[2] + 1][cell[1] + 1] = 0

\* g with the colour of t on exactly the cells t occupies
Painted(g, t) ==
  [r \in 1..GRID_HEIGHT |->
     [c \in 1..GRID_WIDTH |->
        IF <<c - 1, r - 1>> \in Occupied(t) THEN t.color ELSE g[r][c]]]

IsFull(row) == \A c \in 1..GRID_WIDTH : row[c] # 0

FullRows(g) == { i \in 1..Len(g) : IsFull(g[i]) }

\* the number of rows of g among the first i that are not full
KeptUpTo(g, i) == Cardinality((1..i) \ FullRows(g))

\* a step of update that locks the active piece
LockStep == grid' # grid /\ \E i \in ShapeIdx : Update(i)

\* the piece that a locking update writes into the grid
LockedPiece == AfterHeldKeys(ticks)

ResetStep == \E i, j \in ShapeIdx : Reset(i, j)

\* a step of the rotate command
RotateStep == ~paused /\ KeyDownRotate

\* a step that translates the active piece
MoveStep ==
  /\ grid' = grid
  /\ current_tetrimino'.shape = current_tetrimino.shape
  /\ current_tetrimino'.color = current_tetrimino.color
  /\ <<current_tetrimino'.x, current_tetrimino'.y>>
       # <<current_tetrimino.x, current_tetrimino.y>>

(***************************************************************************)
(* C1: whenever a move is carried out (move returns true), every occupied  *)
(* cell of the piece at its new position is in columns [0, W), in a row    *)
(* below H and on no settled block of the same grid.                       *)
(***************************************************************************)
C1_MoveLeavesPieceValid ==
  [][MoveStep =>
       \A cell \in Occupied(current_tetrimino') :
         /\ cell[1] >= 0 /\ cell[1] < GRID_WIDTH
         /\ cell[2] < GRID_HEIGHT
         /\ (cell[2] >= 0 => grid[cell[2] + 1][cell[1] + 1] = 0)]_vars

\* the O piece moved four columns right and to the bottom of the well
C1_Witness ==
  /\ current_tetrimino.shape = SHAPES[4]
  /\ current_tetrimino.x = 8
  /\ current_tetrimino.y = 18
  /\ ~game_over

(***************************************************************************)
(* C2: in every reachable state every occupied cell of the active piece    *)
(* lies in columns [0, W) and rows [0, H).                                 *)
(***************************************************************************)
C2_PieceInsideGrid == \A cell \in Occupied(current_tetrimino) : InGrid(cell)

\* after a row-crush, a rotated I piece stands in the last column
C2_Witness ==
  /\ last_skill_time = StartWall
  /\ current_tetrimino.shape = Rotated(SHAPES[1])
  /\ current_tetrimino.x = GRID_WIDTH - 1

(***************************************************************************)
(* C3: a lock whose promoted piece does not fit at its spawn position on   *)
(* the grid left by row clearing sets game_over; in a game-over state      *)
(* every update leaves grid, score, active piece, falling speed and line   *)
(* counter unchanged.                                                      *)
(***************************************************************************)
C3_GameOverHalts ==
  /\ [][(LockStep /\ ~Fits(current_tetrimino', grid')) => game_over']_vars
  /\ [][(game_over /\ \E i \in ShapeIdx : Update(i)) =>
          UNCHANGED <<grid, score, current_tetrimino, falling_speed,
                      total_lines_cleared>>]_vars

\* game over, and a fall step would be due
C3_Witness == game_over /\ ticks - last_fall_time > falling_speed

(***************************************************************************)
(* C4: a lock writes the colour of the active piece into exactly the cells *)
(* its shape occupies at its anchor, before the rows are cleared; on the   *)
(* empty grid the O piece spawned at (4, 0) moves down as long as its      *)
(* anchor is above row 18 and no further.                                  *)
(***************************************************************************)
C4_LockWritesOccupiedCells ==
  /\ [][LockStep =>
          grid' = clear_lines(Painted(grid, LockedPiece)).grid]_vars
  /\ []((grid = EmptyGrid /\ current_tetrimino.shape = SHAPES[4]) =>
          /\ current_tetrimino.x = 4
          /\ current_tetrimino.y <= 18
          /\ Fits([current_tetrimino EXCEPT !.y = @ + 1], grid)
               <=> current_tetrimino.y < 18)

\* the O piece locked at row 18 of the empty grid
C4_Witness ==
  grid = [r \in 1..GRID_HEIGHT |->
            [c \in 1..GRID_WIDTH |->
               IF r - 1 \in {18, 19} /\ c - 1 \in {4, 5} THEN WHITE ELSE 0]]

(***************************************************************************)
(* C5: clear_lines returns the number of full rows, leaves H rows, puts    *)
(* that many empty rows on top and keeps the rows that are not full        *)
(* unchanged and in their order.                                           *)
(***************************************************************************)
C5_ClearLines ==
  [][LockStep =>
       LET before == LockInto(grid, LockedPiece)
           n == Cardinality(FullRows(before))
           r == clear_lines(before)
       IN  /\ r.lines_cleared = n
           /\ grid' = r.grid
           /\ Len(grid') = GRID_HEIGHT
           /\ \A i \in 1..n : grid'[i] = EmptyRow
           /\ \A i \in (1..GRID_HEIGHT) \ FullRows(before) :
                grid'[n + KeptUpTo(before, i)] = before[i]]_vars

\* rows 16 and 18 of StepGrid cleared by one I piece, rows 17 and 19 kept
C5_Witness ==
  grid = [r \in 1..GRID_HEIGHT |->
            IF r - 1 < 18 THEN EmptyRow
            ELSE [StepGrid[18] EXCEPT ![4] = CYAN]]

(***************************************************************************)
(* C6: a lock that clears n rows adds 50, 150, 350, 750 to the score for   *)
(* n = 1, 2, 3, 4 and nothing for n = 0.                                   *)
(***************************************************************************)
C6_ScorePerLock ==
  [][LockStep =>
       LET n == Cardinality(FullRows(Painted(grid, LockedPiece)))
       IN  /\ n \in 0..4
           /\ score' = score + <<0, 50, 150, 350, 750>>[n + 1]
           /\ score' = score + 50 * (2 ^ n - 1)]_vars

\* three rows cleared by the first lock of a game that used the skill
\* three times
C6_Witness == score = 300 + 350 /\ total_lines_cleared = 3

(***************************************************************************)
(* C7: a lock adds the rows it cleared to the line counter; from 10 on     *)
(* the falling speed drops by 50 ms, not below 100 ms, and 10 is taken off *)
(* the counter; otherwise the falling speed stays.                         *)
(***************************************************************************)
C7_SpeedUp ==
  [][LockStep =>
       LET n == Cardinality(FullRows(Painted(grid, LockedPiece)))
           total == total_lines_cleared + n
       IN  IF total >= 10
           THEN /\ falling_speed' =
                     (IF falling_speed - 50 < 100 THEN 100
                      ELSE falling_speed - 50)
                /\ total_lines_cleared' = total - 10
           ELSE /\ falling_speed' = falling_speed
                /\ total_lines_cleared' = total]_vars

\* 4 + 4 + 4 rows: one speed-up, 2 rows carried over
C7_Witness ==
  falling_speed = 450 /\ total_lines_cleared = 2 /\ score = 1500 + 750

(***************************************************************************)
(* C8: the falling speed is one of 500, 450, ..., 100 ms and no step       *)
(* other than a reset raises it.                                           *)
(***************************************************************************)
C8_SpeedNeverIncreases ==
  /\ [](falling_speed \in { 100 + 50 * k : k \in 0..8 })
  /\ [][falling_speed' <= falling_speed \/ ResetStep]_vars

\* a speed-up at the floor of 100 ms
C8_Witness ==
  falling_speed = 100 /\ total_lines_cleared = 2 /\ score = 16500 + 750

(***************************************************************************)
(* C9: rotate tests the candidate shape at the current anchor only; it     *)
(* commits the candidate if every occupied cell is inside the grid and on  *)
(* an empty cell, keeps shape and position otherwise, and never changes    *)
(* the grid.                                                               *)
(***************************************************************************)
C9_RotateChecksCandidate ==
  [][RotateStep =>
       LET cand == [current_tetrimino EXCEPT !.shape = Rotated(@)]
       IN  /\ grid' = grid
           /\ current_tetrimino' =
                IF Fits(cand, grid) THEN cand ELSE current_tetrimino]_vars

\* a rotated piece whose next rotation does not fit
C9_Witness ==
  /\ \A i \in 1..Len(SHAPES) : current_tetrimino.shape # SHAPES[i]
  /\ ~Fits([current_tetrimino EXCEPT !.shape = Rotated(@)], grid)
  /\ ~game_over

(***************************************************************************)
(* C10: the candidate shape of rotate is the counter-clockwise rotation    *)
(* of the current matrix: old_cols rows, old_rows columns and              *)
(* new[i][j] = old[j][old_cols-1-i].                                       *)
(***************************************************************************)
RotateLeft(m) ==
  [i \in 1..Len(m[1]) |-> [j \in 1..Len(m) |-> m[j][Len(m[1]) + 1 - i]]]

C10_RotateIsCounterClockwise ==
  [][(RotateStep /\ current_tetrimino' # current_tetrimino) =>
       current_tetrimino'.shape = RotateLeft(current_tetrimino.shape)]_vars

(***************************************************************************)
(* C11: four consecutive rotate calls that are all accepted give back the  *)
(* shape matrix the piece started with, at the same anchor.                *)
(***************************************************************************)
\* the candidate of t fits: rotate(t, grid) is accepted
RotationAccepted(t) == Fits([t EXCEPT !.shape = Rotated(@)], grid)

C11_FourRotationsReturn ==
  \A r0 \in {current_tetrimino} :
    \A r1 \in {rotate(r0, grid)} :
      \A r2 \in {rotate(r1, grid)} :
        \A r3 \in {rotate(r2, grid)} :
          \A r4 \in {rotate(r3, grid)} :
            (/\ RotationAccepted(r0) /\ RotationAccepted(r1)
             /\ RotationAccepted(r2) /\ RotationAccepted(r3))
              => /\ r4.shape = r0.shape
                 /\ <<r4.x, r4.y>> = <<r0.x, r0.y>>
                 /\ r1.shape = Rotated(r0.shape)
                 /\ r4.shape = Rotated(Rotated(Rotated(Rotated(r0.shape))))

\* the L piece after three accepted rotations, with room for the fourth
\* and for the three after it
C11_Witness ==
  /\ current_tetrimino.shape = Rotated(Rotated(Rotated(SHAPES[2])))
  /\ RotationAccepted(current_tetrimino)
  /\ RotationAccepted(rotate(current_tetrimino, grid))
  /\ RotationAccepted(rotate(rotate(current_tetrimino, grid), grid))
  /\ RotationAccepted(rotate(rotate(rotate(current_tetrimino, grid), grid),
                             grid))

(***************************************************************************)
(* C12: a move whose target position is out of the horizontal bounds,      *)
(* below the floor or on a settled block is not carried out: the piece     *)
(* keeps x, y and shape and the grid is unchanged.                         *)
(***************************************************************************)
\* a KEYDOWN of move key k that reaches Tetrimino.move
KeyPressStep(k) == ~paused /\ KeyDownMove(k)

\* piece t translated by offset d
Shifted(t, d) == [t EXCEPT !.x = @ + d[1], !.y = @ + d[2]]

C12_RejectedMoveChangesNothing ==
  [][\A k \in MoveKeys :
       (KeyPressStep(k) /\ ~Fits(Shifted(current_tetrimino, KeyOffset(k)), grid))
         => /\ current_tetrimino' = current_tetrimino
            /\ grid' = grid]_vars

\* the O piece still at its spawn row on top of the settled blocks, after
\* soft drop was pressed
C12_Witness ==
  /\ grid = WellGrid(2)
  /\ current_tetrimino.shape = SHAPES[4]
  /\ current_tetrimino.y = 0
  /\ current_tetrimino.x < 7
  /\ held_keys[K_DOWN]
  /\ ~paused

(***************************************************************************)
(* C13: the skill invoked less than 45 seconds after its last successful   *)
(* use changes nothing: grid, score and the time of the last use stay as   *)
(* that use left them.                                                     *)
(***************************************************************************)
\* a KEYDOWN of K_f that reaches clear_last_three_rows
SkillStep == ~paused /\ KeyDownSkill

\* all cells of the bottom three rows are empty
BottomEmpty(g) ==
  \A r \in (GRID_HEIGHT - 2)..GRID_HEIGHT : \A c \in 1..GRID_WIDTH : g[r][c] = 0

C13_CooldownRejects ==
  [][(SkillStep /\ wall - last_skill_time < 45)
       => UNCHANGED <<grid, score, last_skill_time>>]_vars

\* 30 seconds after the only successful use, with blocks in the bottom rows
C13_Witness ==
  /\ last_skill_time = StartWall
  /\ wall = StartWall + 30
  /\ score = 100
  /\ ~BottomEmpty(grid)
  /\ ~game_over

(***************************************************************************)
(* C14: the skill invoked off cooldown while the bottom three rows are     *)
(* empty changes neither grid nor score and does not start the cooldown:   *)
(* the time of the last use is unchanged and the skill is still off        *)
(* cooldown.                                                               *)
(***************************************************************************)
C14_EmptyBottomRejects ==
  [][(SkillStep /\ ~(wall - last_skill_time < 45) /\ BottomEmpty(grid))
       => /\ UNCHANGED <<grid, score, last_skill_time>>
          /\ ~(wall' - last_skill_time' < 45)]_vars

\* a new game in which the skill was never used, the piece on its way down
\* and the wall clock advanced
C14_Witness ==
  /\ grid = EmptyGrid
  /\ last_skill_time = -45
  /\ score = 0
  /\ wall > StartWall
  /\ current_tetrimino.y > 0
  /\ ~game_over

(***************************************************************************)
(* C15: the skill invoked off cooldown with a block in the bottom three    *)
(* rows leaves H rows, rows 0..2 empty and old row r in row r + 3 for r in *)
(* 0..H-4, adds exactly 100 to the score and sets the time of the last use *)
(* to the current time.                                                    *)
(***************************************************************************)
C15_SkillFires ==
  [][(SkillStep /\ ~(wall - last_skill_time < 45) /\ ~BottomEmpty(grid))
       => /\ Len(grid') = 20
          /\ \A r \in 0..2 : grid'[r + 1] = EmptyRow
          /\ \A r \in 0..(20 - 4) : grid'[r + 3 + 1] = grid[r + 1]
          /\ score' = score + 100
          /\ last_skill_time' = wall]_vars

\* the stepped rows 15 seconds into the behaviour, crushed: old row 16 is
\* the bottom row, all rows above it are empty
C15_Witness ==
  /\ grid = [r \in 1..GRID_HEIGHT |->
               IF r = GRID_HEIGHT THEN StepGrid[17] ELSE EmptyRow]
  /\ score = 100
  /\ last_skill_time = StartWall + 15

(***************************************************************************)
(* C16: while paused, update and the move, rotate and skill commands       *)
(* change nothing of the game: every step taken in a paused state other    *)
(* than the pause toggle and reset leaves grid, score, pieces, speed, line *)
(* counter, flags and timers unchanged; the skill fires only in a state    *)
(* that is neither paused nor game over.                                   *)
(***************************************************************************)
C16_PauseFreezes ==
  /\ [][paused =>
          \/ UNCHANGED <<grid, score, current_tetrimino, next_tetrimino,
                         falling_speed, total_lines_cleared, game_over,
                         paused, last_skill_time, last_fall_time,
                         last_move_time>>
          \/ KeyDownPause
          \/ ResetStep]_vars
  /\ [][(last_skill_time' # last_skill_time /\ ~ResetStep)
          => (~paused /\ ~game_over)]_vars

\* paused with a fall step due, soft drop held, its repeat due and room
\* below the piece
C16_Witness ==
  /\ paused
  /\ ticks - last_fall_time > falling_speed
  /\ held_keys[K_DOWN]
  /\ ticks - last_move_time[K_DOWN] > 100
  /\ Fits(Shifted(current_tetrimino, <<0, 1>>), grid)
  /\ ~BottomEmpty(grid)
  /\ ~(wall - last_skill_time < 45)

(***************************************************************************)
(* C17: for a key pressed and kept held, the first repeat move of update   *)
(* comes only once more than 1000 ms have passed since the press; the      *)
(* later repeats come once more than 100 ms have passed since the move     *)
(* before.  In SpecKeys a held key whose last move time is the first clock *)
(* reading has been pressed and has not repeated yet.                      *)
(***************************************************************************)
C17_FirstRepeatAfterInitialDelay ==
  [][\A k \in MoveKeys :
       (held_keys[k] /\ last_move_time'[k] # last_move_time[k])
         => IF last_move_time[k] = StartTicks
            THEN ticks - StartTicks > 1000
            ELSE ticks - last_move_time[k] > 100]_vars

(***************************************************************************)
(* C18: after reset, whatever the state before, every grid cell is empty,  *)
(* score is 0, falling speed is 500 ms, the line counter is 0, paused and  *)
(* game_over are false, the active and the preview piece are archetype     *)
(* pieces at their spawn anchor and the skill is off cooldown.             *)
(***************************************************************************)
\* t is one of the seven archetypes, in its colour, at the spawn anchor
FreshPiece(t) ==
  \E i \in 1..7 :
    /\ t.shape = SHAPES[i]
    /\ t.color = SHAPE_COLORS[i]
    /\ t.x = 5 - (Len(SHAPES[i][1]) \div 2)
    /\ t.y = 0

C18_ResetRestoresNewGame ==
  [][ResetStep =>
       /\ \A r \in 1..20 : \A c \in 1..10 : grid'[r][c] = 0
       /\ score' = 0
       /\ falling_speed' = 500
       /\ total_lines_cleared' = 0
       /\ ~paused'
       /\ ~game_over'
       /\ FreshPiece(current_tetrimino')
       /\ FreshPiece(next_tetrimino')
       /\ ~(wall' - last_skill_time' < 45)]_vars

\* a new game started at the second clock reading, soft drop still held
\* from the game before
C18_Witness ==
  /\ grid = EmptyGrid
  /\ last_fall_time = StartTicks + 600
  /\ held_keys[K_DOWN]
  /\ score = 0
  /\ ~paused
  /\ ~game_over

(***************************************************************************)
(* C19: in every reachable state that is not game over, no occupied cell   *)
(* of the active piece is on a settled cell of the grid, also after a      *)
(* row-crush, which shifts the settled rows down by three and leaves the   *)
(* active piece where it is.                                               *)
(***************************************************************************)
C19_PieceOffSettledBlocks ==
  ~game_over =>
    \A cell \in Occupied(current_tetrimino) :
      InGrid(cell) => grid[cell[2] + 1][cell[1] + 1] = 0

(***************************************************************************)
(* C20: every cell a lock writes was empty just before the lock: the lock  *)
(* adds exactly 4 settled cells before the rows are cleared and changes no *)
(* cell that was settled.                                                  *)
(***************************************************************************)
\* the <<row, column>> pairs of the settled cells of g
SettledCells(g) ==
  { rc \in (1..GRID_HEIGHT) \X (1..GRID_WIDTH) : g[rc[1]][rc[2]] # 0 }

C20_LockWritesEmptyCells ==
  [][LockStep =>
       LET locked == Painted(grid, LockedPiece)
       IN  /\ \A cell \in Occupied(LockedPiece) :
                grid[cell[2] + 1][cell[1] + 1] = 0
           /\ Cardinality(SettledCells(locked))
                = Cardinality(SettledCells(grid)) + 4
           /\ \A rc \in SettledCells(grid) :
                locked[rc[1]][rc[2]] = grid[rc[1]][rc[2]]]_vars

(***************************************************************************)
(* C21: an update that finds a held key's repeat due (more than 100 ms     *)
(* after the key's last move time) sets the last move time to the current  *)
(* time whether or not the piece could move; an update that finds it not   *)
(* due leaves the last move time alone, and moves nothing when neither a   *)
(* repeat nor a fall step is due.  So two repeat attempts of a held key    *)
(* are more than 100 ms apart, also for a blocked piece.                   *)
(***************************************************************************)
\* a call of update
UpdateStep == \E i \in ShapeIdx : Update(i)

\* the repeat of held key k is due
RepeatDue(k) == held_keys[k] /\ ticks - last_move_time[k] > REPEAT_MOVE_DELAY

C21_RepeatAttemptStampsTime ==
  [][(UpdateStep /\ ~paused /\ ~game_over) =>
       /\ \A k \in MoveKeys :
            held_keys[k] =>
              IF RepeatDue(k)
              THEN last_move_time'[k] = ticks
              ELSE last_move_time'[k] = last_move_time[k]
       /\ ((\A k \in MoveKeys : ~RepeatDue(k))
             /\ ~(ticks - last_fall_time > falling_speed))
            => current_tetrimino' = current_tetrimino]_vars

\* the O piece at its spawn row on top of the settled blocks, soft drop
\* held since the first clock reading and last attempted 300 ms later
C21_Witness ==
  /\ grid = WellGrid(2)
  /\ current_tetrimino.shape = SHAPES[4]
  /\ current_tetrimino.y = 0
  /\ current_tetrimino.x < 7
  /\ held_keys[K_DOWN]
  /\ last_move_time[K_DOWN] = StartTicks + 300
  /\ ~game_over

(***************************************************************************)
(* C22: on every lock the new active piece has the shape and the colour of *)
(* the preview piece before the lock, unrotated at the spawn anchor        *)
(* x = W/2 - width/2 (integer division), y = 0; the new preview piece is   *)
(* one of the seven archetypes in its colour; and the last fall time is    *)
(* the current time.                                                       *)
(***************************************************************************)
\* an update whose fall step is due and finds the piece resting
LockEvent ==
  /\ UpdateStep
  /\ ~paused /\ ~game_over
  /\ ticks - last_fall_time > falling_speed
  /\ ~Fits(Shifted(LockedPiece, <<0, 1>>), grid)

C22_LockPromotesPreview ==
  [][LockEvent =>
       /\ current_tetrimino'.shape = next_tetrimino.shape
       /\ current_tetrimino'.color = next_tetrimino.color
       /\ current_tetrimino'.x =
            (GRID_WIDTH \div 2) - (Len(next_tetrimino.shape[1]) \div 2)
       /\ current_tetrimino'.y = 0
       /\ FreshPiece(current_tetrimino')
       /\ FreshPiece(next_tetrimino')
       /\ last_fall_time' = ticks]_vars

\* a piece of the third archetype has been locked in the two right-hand
\* columns and a piece of the fifth archetype promoted
C22_Witness ==
  /\ \E r \in 1..GRID_HEIGHT, c \in 9..GRID_WIDTH : grid[r][c] = MAGENTA
  /\ grid # WellGrid(3)
  /\ current_tetrimino.shape = SHAPES[5]
  /\ last_fall_time = ticks
  /\ ticks > StartTicks

(***************************************************************************)
(* C23: the grid changes only in a locking update, in a successful use of  *)
(* the skill or in a reset.  A move, soft drop or rotation, accepted or    *)
(* rejected, from a key press or from the repeat of a held key, leaves the *)
(* grid, the score and the preview piece alone, and a rejected soft drop   *)
(* leaves the piece where it is, not locked.                               *)
(***************************************************************************)
\* an update that only repeats held keys: its fall step is not due
RepeatOnlyStep ==
  /\ UpdateStep
  /\ ~paused /\ ~game_over
  /\ ~(ticks - last_fall_time > falling_speed)

\* a use of the skill that is carried out
SkillFiredStep == SkillStep /\ score' = score + SKILL_SCORE

C23_OnlyLockSkillResetChangeGrid ==
  [][/\ grid' # grid => (LockEvent \/ SkillFiredStep \/ ResetStep)
     /\ ((\E k \in MoveKeys : KeyPressStep(k)) \/ RotateStep
           \/ RepeatOnlyStep)
          => /\ grid' = grid
             /\ score' = score
             /\ next_tetrimino' = next_tetrimino
             /\ current_tetrimino'.color = current_tetrimino.color
             /\ current_tetrimino'.y \in
                  {current_tetrimino.y, current_tetrimino.y + 1}
     /\ (/\ KeyPressStep(K_DOWN) \/ (RepeatOnlyStep /\ RepeatDue(K_DOWN))
         /\ ~RepeatDue(K_LEFT) /\ ~RepeatDue(K_RIGHT)
         /\ ~Fits(Shifted(current_tetrimino, <<0, 1>>), grid))
          => /\ current_tetrimino' = current_tetrimino
             /\ grid' = grid]_vars

\* the I piece one row below its spawn row on top of the settled blocks,
\* soft drop held and rejected by three updates, no fall step yet
C23_Witness ==
  /\ grid = WellGrid(2)
  /\ current_tetrimino = [new_tetrimino(0) EXCEPT !.y = 1]
  /\ held_keys[K_DOWN]
  /\ last_move_time[K_DOWN] = StartTicks + 450
  /\ last_fall_time = StartTicks

(***************************************************************************)
(* C24: in every state left by update, by the skill or by reset, also by   *)
(* the update that ends the game, no row of the grid has all its ten cells *)
(* occupied.                                                               *)
(***************************************************************************)
C24_NoFullRow ==
  \A r \in 1..GRID_HEIGHT : \E c \in 1..GRID_WIDTH : grid[r][c] = 0

\* two rows completed by the O piece in the well were cleared and the
\* skill crushed three of the rows that were left
C24_Witness ==
  /\ score = 150 + SKILL_SCORE
  /\ total_lines_cleared = 2
  /\ grid # EmptyGrid
  /\ ~game_over

(***************************************************************************)
(* C25: while the game is neither paused nor over and update is called in  *)
(* every frame with the clock advancing, the active piece is eventually    *)
(* locked and replaced, whatever the player moves, rotates or crushes: no  *)
(* step but the replacement of the piece lowers its row number, and the    *)
(* update whose fall step finds the piece resting locks it at once.  The   *)
(* first piece has locked when the grid is no longer the settled rows of   *)
(* the start, crushed or not; update keeps being called when again and     *)
(* again no fall step is left pending.                                     *)
(***************************************************************************)
C25_PieceEventuallyLocks ==
  /\ []<>FrameDone => <>~FirstPiece
  /\ [][~LockEvent => current_tetrimino'.y >= current_tetrimino.y]_vars
  /\ [][LockEvent =>
          /\ current_tetrimino' = next_tetrimino
          /\ grid' # grid]_vars

\* the skill was used and the O piece, after six frames of falling with
\* soft drop not held, was locked in the well and completed two rows
C25_Witness ==
  /\ score = SKILL_SCORE + 150
  /\ total_lines_cleared = 2
  /\ ticks = StartTicks + 3600
  /\ ~held_keys[K_DOWN]
  /\ ~FirstPiece

(***************************************************************************)
(* C26: one call of update takes at most one fall step or one lock and     *)
(* moves the piece at most once per held key, however long ago the last    *)
(* update was: without a lock the piece goes down at most two rows, one    *)
(* for the soft drop and one for the fall step, and at most one column     *)
(* sideways; with a lock the grid gains the cells of one piece at most and *)
(* the preview piece becomes the active piece.                             *)
(***************************************************************************)
\* the number of occupied cells of g
CellCount(g) ==
  Cardinality({ rc \in (1..GRID_HEIGHT) \X (1..GRID_WIDTH) :
                  g[rc[1]][rc[2]] # 0 })

C26_OneStepPerUpdate ==
  [][(UpdateStep /\ ~paused /\ ~game_over) =>
       LET dy == current_tetrimino'.y - current_tetrimino.y
           dx == current_tetrimino'.x - current_tetrimino.x
           fall_due == ticks - last_fall_time > falling_speed
       IN  IF LockEvent
           THEN /\ CellCount(grid') <= CellCount(grid) + 4
                /\ current_tetrimino' = next_tetrimino
           ELSE /\ grid' = grid
                /\ next_tetrimino' = next_tetrimino
                /\ current_tetrimino'.shape = current_tetrimino.shape
                /\ dx \in {-1, 0, 1}
                /\ dy \in {0, 1, 2}
                /\ dy <= (IF fall_due THEN 1 ELSE 0)
                         + (IF held_keys[K_DOWN] THEN 1 ELSE 0)]_vars

\* the O piece of a new game after its only update, 1200 ms after the
\* start with the left key held since the start: two columns to the left
\* of its spawn column, one by the key press and one by the update, and
\* one row down
C26_Witness ==
  /\ grid = EmptyGrid
  /\ current_tetrimino = [new_tetrimino(3) EXCEPT !.x = @ - 2, !.y = 1]
  /\ held_keys[K_LEFT]
  /\ last_move_time[K_LEFT] = StartTicks + 1200
  /\ last_fall_time = StartTicks + 1200
  /\ last_move_time[K_DOWN] = 0
  /\ score = 0

(***************************************************************************)
(* C27: one lock clears at most four rows, so one call of update adds 0,   *)
(* 50, 150, 350 or 750 to the score; it lowers the falling speed by one    *)
(* step of 50 ms at most, and the line counter stays below 10 afterwards.  *)
(***************************************************************************)
C27_AtMostFourRowsPerLock ==
  /\ [](total_lines_cleared \in 0..9)
  /\ [][UpdateStep =>
          /\ score' - score \in {0, 50, 150, 350, 750}
          /\ falling_speed - falling_speed' \in {0, 50}
          /\ LockEvent =>
               LET locked == Painted(grid, LockedPiece)
                   n == Cardinality(FullRows(locked))
               IN  /\ n <= 4
                   /\ CellCount(grid') = CellCount(locked) - GRID_WIDTH * n
                   /\ total_lines_cleared' \in
                        {total_lines_cleared + n,
                         total_lines_cleared + n - 10}
                   /\ falling_speed' # falling_speed
                        => total_lines_cleared + n >= 10]_vars

\* four rows cleared by one lock at 150 ms: 750 points, one speed-up to
\* the floor of 100 ms, no row carried over
C27_Witness ==
  /\ score = 14250 + 750
  /\ falling_speed = 100
  /\ total_lines_cleared = 0
  /\ grid = EmptyGrid

=============================================================================
